---- MODULE Spec2Model ----
(***************************************************************************)
(* image_mover: copy the media files of a source folder tree into a        *)
(* destination tree with a pool of worker tasks, ask whether the originals *)
(* should be deleted, delete them with a second pool of tasks and prune    *)
(* the directories that became empty.                                      *)
(*                                                                         *)
(* The file system is the shared state.  A path is a sequence of names; a  *)
(* name is a record [base, suf, ext] that stands for the string            *)
(* base_<suf[1]>_<suf[2]>....ext, so that the name get_unique_file_path    *)
(* formats from "a.jpg" and counter 1 is the very name of a file called    *)
(* "a_1.jpg".                                                              *)
(***************************************************************************)
EXTENDS Integers, Sequences, FiniteSets, TLC

VARIABLES
    source,         \* the folder picked as source (main.rs:20)
    dest,           \* the folder picked as destination (main.rs:21)
    dirs,           \* file system: the canonical paths of the directories
    files,          \* file system: canonical path of a file |-> its content
    full,           \* file system: candidates all of whose suffixed names exist
    almost,         \* file system: candidates with every suffixed name but the last
    selection,      \* what the two folder pickers returned (main.rs:20-21)
    env,            \* the I/O operations the platform refuses in this run
    loops,          \* file system: the directory links inside A, each naming A
    walk_exclude,   \* the exclude_path argument of the walk (media.rs:13, 181)
    total_size,     \* the total_size of the sizing walk (file_ops.rs:131)
    com,            \* the COM library on main's thread (main.rs:15, 67)
    pc,             \* position of main
    validation,     \* what validate_folder_paths returned
    media_files,    \* the copy phase's file list
    task,           \* copy tasks, one per element of media_files
    copied_count,   \* AtomicUsize copied_count
    copy_result,    \* what copy_media_files returned
    answer,         \* what show_deletion_prompt returned
    del_files,      \* the delete phase's file list
    del_task,       \* delete tasks, one per element of del_files
    deleted_count,  \* AtomicUsize deleted_count
    directories,    \* cleanup_empty_directories: the directories still to try
    delete_result,  \* what delete_original_files returned
    files0,         \* history: files when the run started
    dirs0,          \* history: dirs when the run started
    snap,           \* history: DOMAIN files at the latest scan
    removed,        \* history: the files remove_file removed
    pruned          \* history: the directories remove_dir removed, in order

inputs == <<source, dest, full, almost, selection, env, loops, walk_exclude,
           files0, dirs0>>
fsys == <<dirs, files>>
copyv == <<media_files, task, copied_count, copy_result>>
delv == <<del_files, del_task, deleted_count, directories, delete_result>>
vars == <<inputs, fsys, pc, validation, copyv, answer, delv, snap, removed, pruned,
          total_size, com>>

(***************************************************************************)
(* Names and paths                                                         *)
(***************************************************************************)
NoExt == "<none>"

Name(b, s, e) == [base |-> b, suf |-> s, ext |-> e]
DirName(b) == Name(b, <<>>, NoExt)

Last(p) == p[Len(p)]
Parent(p) == SubSeq(p, 1, Len(p) - 1)
Join(p, rel) == p \o rel

\* Path::starts_with: q is a component-wise prefix of p
StartsWith(p, q) == Len(q) <= Len(p) /\ SubSeq(p, 1, Len(q)) = q

\* Path::strip_prefix, on a path that starts with root
StripPrefix(p, root) == SubSeq(p, Len(root) + 1, Len(p))

Range(s) == {s[i] : i \in DOMAIN s}

None == [some |-> FALSE, val |-> <<>>]
Some(p) == [some |-> TRUE, val |-> p]

Ok(v) == [ok |-> TRUE, val |-> v]
Err(k, m) == [ok |-> FALSE, kind |-> k, msg |-> m]

\* the value of a result variable before its call has returned
Pending == Err("Pending", "")
Returned(r) == r # Pending

(***************************************************************************)
(* The file tree of the runs                                               *)
(***************************************************************************)
A == <<DirName("A")>>
B == <<DirName("B")>>
L == <<DirName("L")>>           \* a directory link to A
X == <<DirName("X")>>           \* a path that does not exist
Ac == Append(A, DirName("c"))   \* a directory below A
Sub == <<DirName("sub")>>
Loop == Append(A, DirName("loop"))   \* a directory link to A inside A

a_jpg == Name("a", <<>>, "jpg")
a_1_jpg == Name("a", <<1>>, "jpg")
b_JPG == Name("b", <<>>, "JPG")
n_txt == Name("n", <<>>, "txt")
m_noext == Name("m", <<>>, NoExt)

\* directory links: the path of the link |-> the canonical path it names
Links == [p \in {L, Loop} |-> A]

\* the links of this run
IsLink(p) == p = L \/ p \in loops

RECURSIVE CanonFrom(_, _)
CanonFrom(done, rest) ==
    IF rest = <<>> THEN done
    ELSE LET nxt == Append(done, Head(rest))
         IN CanonFrom(IF IsLink(nxt) THEN Links[nxt] ELSE nxt, Tail(rest))

\* the path with its links resolved
Canon(p) == CanonFrom(<<>>, p)

RECURSIVE HopsFrom(_, _)
HopsFrom(done, rest) ==
    IF rest = <<>> THEN 0
    ELSE LET nxt == Append(done, Head(rest))
         IN IF IsLink(nxt)
            THEN 1 + HopsFrom(Links[nxt], Tail(rest))
            ELSE HopsFrom(nxt, Tail(rest))

\* the number of links the platform follows when it resolves p
LinkHops(p) == HopsFrom(<<>>, p)

\* the platform refuses a path that makes it follow more links than this
MaxLinkHops == 2

(***************************************************************************)
(* File-system queries (std::path::Path, std::fs); every one follows links *)
(***************************************************************************)
\* mutant: the loop gives up one attempt earlier
MaxAttempts_OneLess == 10000 - 1

MaxAttempts == 10000

\* the suffixed names stem_1 .. stem_10000 that a crowded directory holds
NamesTaken == 10000

\* c is one of the suffixed names stem_1 .. stem_10000 of a candidate in `full`
InFull(c) ==
    /\ c # <<>>
    /\ \E p0 \in full :
          /\ Parent(c) = Parent(p0)
          /\ Last(c).base = Last(p0).base
          /\ Last(c).ext = Last(p0).ext
          /\ Len(Last(c).suf) = Len(Last(p0).suf) + 1
          /\ SubSeq(Last(c).suf, 1, Len(Last(p0).suf)) = Last(p0).suf
          /\ Last(c).suf[Len(Last(c).suf)] \in 1..NamesTaken

\* c is one of the suffixed names stem_1 .. stem_9999 of a candidate in `almost`
InAlmost(c) ==
    /\ c # <<>>
    /\ \E p0 \in almost :
          /\ Parent(c) = Parent(p0)
          /\ Last(c).base = Last(p0).base
          /\ Last(c).ext = Last(p0).ext
          /\ Len(Last(c).suf) = Len(Last(p0).suf) + 1
          /\ SubSeq(Last(c).suf, 1, Len(Last(p0).suf)) = Last(p0).suf
          /\ Last(c).suf[Len(Last(c).suf)] \in 1..(NamesTaken - 1)

\* Path::is_dir, Path::is_file, Path::exists on the tree (ds, fs)
IsDirIn(ds, p) == Canon(p) \in ds
IsFileIn(fs, p) == Canon(p) \in fs \/ InFull(Canon(p)) \/ InAlmost(Canon(p))
ExistsIn(ds, fs, p) == IsDirIn(ds, p) \/ IsFileIn(fs, p)

IsDir(p) == IsDirIn(dirs, p)
IsFile(p) == IsFileIn(DOMAIN files, p)
Exists(p) == ExistsIn(dirs, DOMAIN files, p)

\* Path::canonicalize: an error when the path does not exist
Canonicalize(p) == IF Exists(p) THEN Ok(Canon(p)) ELSE Err("NotFound", "canonicalize")

\* Path::extension and Path::file_stem of the last component
Extension(p) == IF Last(p).ext = NoExt THEN None ELSE Some(Last(p).ext)
FileStem(p) == [base |-> Last(p).base, suf |-> Last(p).suf]

\* str::to_lowercase on the extensions of the runs
ToLowercase(e) ==
    CASE e = "JPG" -> "jpg"
      [] e = "Jpg" -> "jpg"
      [] e = "TXT" -> "txt"
      [] OTHER -> e

(***************************************************************************)
(* media.rs: is_media_file                                                 *)
(***************************************************************************)
MediaExtensions ==
    { "jpg", "jpeg", "png", "gif", "bmp", "tiff", "tif", "webp", "svg", "ico",
      "heic", "heif",
      "raw", "dng",
      "cr2", "cr3", "crw", "1dx", "1dc",
      "nef", "nrw",
      "arw", "srf", "sr2",
      "orf", "rw2", "raf",
      "ptx", "pef",
      "rwl", "dcs",
      "x3f", "mef",
      "iiq", "cap",
      "3fr", "fff",
      "dcr", "k25", "kdc",
      "mrw", "srw", "erf",
      "bay", "bmq", "cs1", "dc2", "drf", "dsc", "dxo", "ia", "kc2", "mdc", "mos",
      "mqv", "ndd", "obm", "oti", "pcd", "pxn", "qtk", "ras", "rdc", "rwz", "st4",
      "st5", "st6", "st7", "st8", "stx", "wdp",
      "mp4", "avi", "mkv", "mov", "wmv", "flv", "webm", "m4v", "3gp", "3g2", "f4v",
      "asf", "rm", "rmvb", "vob", "ogv", "drc", "mng", "qt", "yuv", "m2v", "m4p",
      "mpg", "mp2", "mpeg", "mpe", "mpv", "m2ts", "mts", "ts",
      "mxf", "r3d", "braw", "prores", "dnxhd", "cine" }

is_media_file(extension) == extension \in MediaExtensions

(***************************************************************************)
(* fs::read_dir: the entries of a directory, listed in name order          *)
(***************************************************************************)
BaseOrder == <<"A", "B", "L", "X", "a", "b", "c", "e", "f", "k", "loop", "m", "n",
               "sub">>
ExtOrder == <<NoExt, "JPG", "jpg", "txt">>

IndexOf(seq, x) == CHOOSE i \in 1..Len(seq) : seq[i] = x

RECURSIVE LexLess(_, _)
LexLess(s, t) ==
    IF s = <<>> THEN t # <<>>
    ELSE IF t = <<>> THEN FALSE
    ELSE IF s[1] # t[1] THEN s[1] < t[1]
    ELSE LexLess(Tail(s), Tail(t))

NameLess(x, y) ==
    IF x.base # y.base THEN IndexOf(BaseOrder, x.base) < IndexOf(BaseOrder, y.base)
    ELSE IF x.suf # y.suf THEN LexLess(x.suf, y.suf)
    ELSE IndexOf(ExtOrder, x.ext) < IndexOf(ExtOrder, y.ext)

RECURSIVE SortNames(_)
SortNames(S) ==
    IF S = {} THEN <<>>
    ELSE LET x == CHOOSE x \in S : \A y \in S \ {x} : NameLess(x, y)
         IN <<x>> \o SortNames(S \ {x})

\* the names of the entries of the directory with canonical path d
ChildNames(d) ==
    {Last(q) : q \in {q \in dirs \cup DOMAIN files \cup loops :
                            q # <<>> /\ Parent(q) = d}}

\* the directories the platform does not list now: those it never lists and
\* those it stops listing once the originals are being deleted
Unlistable ==
    env.unlistable
        \cup (IF pc \in {"deleting", "prune"} THEN env.unlistable_late ELSE {})

\* fs::read_dir(dir): an error for a directory the platform does not list,
\* else the paths dir.join(name) of its entries
ReadDir(dir) ==
    IF ~IsDir(dir) \/ Canon(dir) \in Unlistable \/ LinkHops(dir) > MaxLinkHops
    THEN Err("PermissionDenied", "read_dir")
    ELSE LET names == SortNames(ChildNames(Canon(dir)))
         IN Ok([i \in 1..Len(names) |-> Append(dir, names[i])])

(***************************************************************************)
(* media.rs: collect_media_files                                           *)
(***************************************************************************)
\* mutant: the paths are compared as written, without canonicalize
IsExcluded_AsWritten(path, exclude_path) ==
    exclude_path.some /\ path = exclude_path.val

\* media.rs:44-53: the directory `path` is the excluded one
IsExcluded(path, exclude_path) ==
    /\ exclude_path.some
    /\ Canonicalize(path).ok
    /\ Canonicalize(exclude_path.val).ok
    /\ Canonicalize(path).val = Canonicalize(exclude_path.val).val

\* media.rs:64-69: the file `path` has an extension that is_media_file accepts
HasMediaExtension(path) ==
    /\ Extension(path).some
    /\ is_media_file(ToLowercase(Extension(path).val))

RECURSIVE collect_media_files(_, _, _)
RECURSIVE CollectEntries(_, _, _)

\* mutant: a subdirectory that cannot be listed ends the loop
CollectEntries_AbortsAtUnreadable(entries, source_root, exclude_path) ==
    IF entries = <<>> THEN <<>>
    ELSE LET path == Head(entries)
             rest == CollectEntries(Tail(entries), source_root, exclude_path)
         IN IF IsDir(path)
            THEN IF IsExcluded(path, exclude_path)
                 THEN rest
                 ELSE IF ~ReadDir(path).ok
                 THEN <<>>
                 ELSE collect_media_files(path, source_root, exclude_path) \o rest
            ELSE IF IsFile(path) /\ HasMediaExtension(path)
                 THEN <<StripPrefix(path, source_root)>> \o rest
                 ELSE rest

\* media.rs:28-79: the loop over the entries of one directory; the value is
\* what the loop pushes onto media_files
CollectEntries(entries, source_root, exclude_path) ==
    IF entries = <<>> THEN <<>>
    ELSE LET path == Head(entries)
             rest == CollectEntries(Tail(entries), source_root, exclude_path)
         IN IF IsDir(path)
            THEN IF IsExcluded(path, exclude_path)
                 THEN rest
                 ELSE collect_media_files(path, source_root, exclude_path) \o rest
            ELSE IF IsFile(path) /\ HasMediaExtension(path)
                 THEN <<StripPrefix(path, source_root)>> \o rest
                 ELSE rest

\* media.rs:10-82: what the call pushes onto media_files.  A directory that
\* cannot be listed pushes nothing and the walk goes on.
collect_media_files(current_dir, source_root, exclude_path) ==
    LET entries == ReadDir(current_dir)
    IN IF entries.ok
       THEN CollectEntries(entries.val, source_root, exclude_path)
       ELSE <<>>

RECURSIVE WalkVisits(_, _)
RECURSIVE VisitEntries(_, _)

\* media.rs:28-63: the directories the loop over the entries goes down into
VisitEntries(entries, exclude_path) ==
    IF entries = <<>> THEN <<>>
    ELSE LET path == Head(entries)
         IN (IF IsDir(path) /\ ~IsExcluded(path, exclude_path)
             THEN WalkVisits(path, exclude_path)
             ELSE <<>>)
            \o VisitEntries(Tail(entries), exclude_path)

\* media.rs:10-82: the directories whose entries the walk from current_dir
\* reads, in the order of the calls
WalkVisits(current_dir, exclude_path) ==
    LET entries == ReadDir(current_dir)
    IN IF entries.ok
       THEN <<current_dir>> \o VisitEntries(entries.val, exclude_path)
       ELSE <<>>

(***************************************************************************)
(* media.rs: collect_media_files_with_size_progress                        *)
(* The operators give [files, size]: what the call pushes onto media_files *)
(* and what it adds to total_size.                                         *)
(***************************************************************************)
\* the length in bytes of the file that started the run as `content`
FileLength(content) ==
    CASE Last(content) = a_jpg -> 1
      [] Last(content) = a_1_jpg -> 2
      [] Last(content) = b_JPG -> 4
      [] OTHER -> 8

\* fs::metadata(path) and metadata.len()
Metadata(path) ==
    IF ~IsFile(path) \/ Canon(path) \in env.nometadata
    THEN Err("PermissionDenied", "metadata")
    ELSE Ok(FileLength(files[Canon(path)]))

NoFiles == [files |-> <<>>, size |-> 0]

\* mutant: the files of a subdirectory are listed after the rest of its parent
Both_RestFirst(x, y) == [files |-> y.files \o x.files, size |-> x.size + y.size]

Both(x, y) == [files |-> x.files \o y.files, size |-> x.size + y.size]

RECURSIVE collect_media_files_with_size_progress(_, _, _)
RECURSIVE CollectSizedEntries(_, _, _)

\* mutant: a file whose metadata cannot be read is left out of the list
CollectSizedEntries_DropsUnsized(entries, source_root, exclude) ==
    IF entries = <<>> THEN NoFiles
    ELSE LET path == Head(entries)
             rest == CollectSizedEntries(Tail(entries), source_root, exclude)
         IN IF IsDir(path)
            THEN IF IsExcluded(path, exclude)
                 THEN rest
                 ELSE Both(collect_media_files_with_size_progress(path, source_root,
                                                                  exclude),
                           rest)
            ELSE IF IsFile(path) /\ HasMediaExtension(path) /\ Metadata(path).ok
                 THEN Both([files |-> <<StripPrefix(path, source_root)>>,
                            size |-> Metadata(path).val],
                           rest)
                 ELSE rest

\* media.rs:223-315: the loop over the entries of one directory
CollectSizedEntries(entries, source_root, exclude) ==
    IF entries = <<>> THEN NoFiles
    ELSE LET path == Head(entries)
             rest == CollectSizedEntries(Tail(entries), source_root, exclude)
         IN IF IsDir(path)
            THEN IF IsExcluded(path, exclude)
                 THEN rest
                 ELSE Both(collect_media_files_with_size_progress(path, source_root,
                                                                  exclude),
                           rest)
            ELSE IF IsFile(path) /\ HasMediaExtension(path)
                 THEN Both([files |-> <<StripPrefix(path, source_root)>>,
                            size |-> IF Metadata(path).ok THEN Metadata(path).val
                                     ELSE 0],
                           rest)
                 ELSE rest

\* media.rs:203-318.  A directory that cannot be listed adds nothing and the
\* walk goes on.
collect_media_files_with_size_progress(current_dir, source_root, exclude) ==
    LET entries == ReadDir(current_dir)
    IN IF entries.ok
       THEN CollectSizedEntries(entries.val, source_root, exclude)
       ELSE NoFiles

\* media.rs:178-200
collect_media_files_with_size_and_progress(current_dir, source_root, exclude) ==
    collect_media_files_with_size_progress(current_dir, source_root, exclude)

\* file_ops.rs:126-142
collect_media_files_and_calculate_size(src, exclude) ==
    LET found == collect_media_files_with_size_and_progress(src, src, exclude)
    IN Ok(<<found.files, found.size>>)

(***************************************************************************)
(* file_ops.rs: validate_folder_paths                                      *)
(***************************************************************************)
\* mutant: the arguments of starts_with are exchanged
validate_folder_paths_Exchanged(src, destination) ==
    LET canonical_source == Canonicalize(src)
        canonical_dest == Canonicalize(destination)
    IN IF ~canonical_source.ok
       THEN Err("NotFound", "Unable to access source folder")
       ELSE IF ~canonical_dest.ok
       THEN Err("NotFound", "Unable to access destination folder")
       ELSE IF canonical_source.val = canonical_dest.val
       THEN Err("InvalidInput", "Source and destination folders cannot be the same")
       ELSE IF StartsWith(canonical_dest.val, canonical_source.val)
       THEN Err("InvalidInput", "Source folder cannot be within the destination folder")
       ELSE Ok(<<>>)

\* mutant: the check that the source lies within the destination is dropped
validate_folder_paths_NoNesting(src, destination) ==
    LET canonical_source == Canonicalize(src)
        canonical_dest == Canonicalize(destination)
    IN IF ~canonical_source.ok
       THEN Err("NotFound", "Unable to access source folder")
       ELSE IF ~canonical_dest.ok
       THEN Err("NotFound", "Unable to access destination folder")
       ELSE IF canonical_source.val = canonical_dest.val
       THEN Err("InvalidInput", "Source and destination folders cannot be the same")
       ELSE Ok(<<>>)

\* mutant: the destination is canonicalized before the source
validate_folder_paths_DestinationFirst(src, destination) ==
    LET canonical_source == Canonicalize(src)
        canonical_dest == Canonicalize(destination)
    IN IF ~canonical_dest.ok
       THEN Err("NotFound", "Unable to access destination folder")
       ELSE IF ~canonical_source.ok
       THEN Err("NotFound", "Unable to access source folder")
       ELSE IF canonical_source.val = canonical_dest.val
       THEN Err("InvalidInput", "Source and destination folders cannot be the same")
       ELSE IF StartsWith(canonical_source.val, canonical_dest.val)
       THEN Err("InvalidInput", "Source folder cannot be within the destination folder")
       ELSE Ok(<<>>)

validate_folder_paths(src, destination) ==
    LET canonical_source == Canonicalize(src)
        canonical_dest == Canonicalize(destination)
    IN IF ~canonical_source.ok
       THEN Err("NotFound", "Unable to access source folder")
       ELSE IF ~canonical_dest.ok
       THEN Err("NotFound", "Unable to access destination folder")
       ELSE IF canonical_source.val = canonical_dest.val
       THEN Err("InvalidInput", "Source and destination folders cannot be the same")
       ELSE IF StartsWith(canonical_source.val, canonical_dest.val)
       THEN Err("InvalidInput", "Source folder cannot be within the destination folder")
       ELSE Ok(<<>>)

(***************************************************************************)
(* file_ops.rs: get_unique_file_path                                       *)
(***************************************************************************)
\* file_ops.rs:178-189: parent.join(format!("{}_{}.{}", stem, counter, ext)),
\* or format!("{}_{}", stem, counter) for a path without extension
NewPath(original_path, counter) ==
    LET stem == FileStem(original_path)
        extension == Extension(original_path)
    IN Append(Parent(original_path),
              IF extension.some
              THEN Name(stem.base, Append(stem.suf, counter), extension.val)
              ELSE Name(stem.base, Append(stem.suf, counter), NoExt))

\* mutant: the first name tried is the one after `counter`
UniqueLoop_SkipsFirst(original_path, counter) ==
    IF \A k \in (counter + 1)..MaxAttempts : Exists(NewPath(original_path, k))
    THEN Err("Other", "Could not find unique filename after 10000 attempts")
    ELSE Ok(NewPath(original_path,
                    CHOOSE k \in (counter + 1)..MaxAttempts :
                        /\ ~Exists(NewPath(original_path, k))
                        /\ \A j \in (counter + 1)..(k - 1) :
                              Exists(NewPath(original_path, j))))

\* file_ops.rs:177-204: the loop, entered with counter = 1.  It returns the
\* first new_path, from `counter` on, that does not exist, and the error once
\* the counter has passed 10000.
UniqueLoop(original_path, counter) ==
    IF \A k \in counter..MaxAttempts : Exists(NewPath(original_path, k))
    THEN Err("Other", "Could not find unique filename after 10000 attempts")
    ELSE Ok(NewPath(original_path,
                    CHOOSE k \in counter..MaxAttempts :
                        /\ ~Exists(NewPath(original_path, k))
                        /\ \A j \in counter..(k - 1) : Exists(NewPath(original_path, j))))

\* mutant: the candidate is returned without looking at the file system
get_unique_file_path_NoCheck(original_path) == Ok(original_path)

\* mutant: a counter is appended whether the candidate exists or not
get_unique_file_path_AlwaysSuffixed(original_path) == UniqueLoop(original_path, 1)

get_unique_file_path(original_path) ==
    IF ~Exists(original_path)
    THEN Ok(original_path)
    ELSE UniqueLoop(original_path, 1)

(***************************************************************************)
(* directory.rs: create_unique_directory_structure                         *)
(* The operators take the set of directories and give [ok, dirs].          *)
(***************************************************************************)
\* mutant: beside the directory, a sibling with the suffix _1 is created
CreateDir_AlsoSuffixed(ds, path) ==
    IF \/ ExistsIn(ds, DOMAIN files, path)
       \/ ~IsDirIn(ds, Parent(path))
       \/ Canon(path) \in env.nomkdir
    THEN [ok |-> FALSE, dirs |-> ds]
    ELSE [ok |-> TRUE,
          dirs |-> ds \cup {Canon(path),
                            Canon(Append(Parent(path),
                                         [Last(path) EXCEPT !.suf = <<1>>]))}]

\* fs::create_dir(path)
CreateDir(ds, path) ==
    IF \/ ExistsIn(ds, DOMAIN files, path)
       \/ ~IsDirIn(ds, Parent(path))
       \/ Canon(path) \in env.nomkdir
    THEN [ok |-> FALSE, dirs |-> ds]
    ELSE [ok |-> TRUE, dirs |-> ds \cup {Canon(path)}]

\* fs::create_dir_all(path): the missing ancestors first, then the directory
RECURSIVE CreateDirAll(_, _)
CreateDirAll(ds, path) ==
    IF path = <<>> \/ IsDirIn(ds, path) THEN [ok |-> TRUE, dirs |-> ds]
    ELSE LET up == CreateDirAll(ds, Parent(path))
         IN IF up.ok THEN CreateDir(up.dirs, path) ELSE up

\* directory.rs:102-124: the loop over the components of relative_path
RECURSIVE CreateComponents(_, _, _)
CreateComponents(ds, current_path, components) ==
    IF components = <<>> THEN [ok |-> TRUE, dirs |-> ds]
    ELSE LET next_path == Append(current_path, Head(components))
         IN IF ExistsIn(ds, DOMAIN files, next_path)
            THEN CreateComponents(ds, next_path, Tail(components))
            ELSE LET made == CreateDir(ds, next_path)
                 IN IF made.ok
                    THEN CreateComponents(made.dirs, next_path, Tail(components))
                    ELSE made

\* mutant: the target is created with create_dir whether it exists or not
CreateStructureIn_AlwaysCreates(ds, dest_root, target_dir) ==
    LET up == CreateDirAll(ds, Parent(target_dir))
    IN IF up.ok THEN CreateDir(up.dirs, target_dir) ELSE up

\* directory.rs:78-127 on the directories ds
CreateStructureIn(ds, dest_root, target_dir) ==
    IF ~ExistsIn(ds, DOMAIN files, target_dir)
    THEN CreateDirAll(ds, target_dir)
    ELSE IF ~StartsWith(target_dir, dest_root)
    THEN [ok |-> FALSE, dirs |-> ds]
    ELSE CreateComponents(ds, dest_root, StripPrefix(target_dir, dest_root))

create_unique_directory_structure(dest_root, target_dir) ==
    CreateStructureIn(dirs, dest_root, target_dir)

(***************************************************************************)
(* directory.rs: collect_directories, cleanup_empty_directories            *)
(***************************************************************************)
RECURSIVE collect_directories(_)
RECURSIVE CollectDirEntries(_)

\* directory.rs:48-73: what the loop pushes onto directories
CollectDirEntries(entries) ==
    IF entries = <<>> THEN <<>>
    ELSE LET path == Head(entries)
         IN IF IsDir(path)
            THEN <<path>> \o collect_directories(path) \o CollectDirEntries(Tail(entries))
            ELSE CollectDirEntries(Tail(entries))

collect_directories(current_dir) ==
    LET entries == ReadDir(current_dir)
    IN IF entries.ok THEN CollectDirEntries(entries.val) ELSE <<>>

RECURSIVE SortFrom(_, _)
\* the elements of seq with n components, then those with n-1, ...: each group
\* in the order of seq, which is what the stable sort_by of directory.rs:9 gives
SortFrom(seq, n) ==
    IF n = 0 THEN <<>>
    ELSE SelectSeq(seq, LAMBDA d : Len(d) = n) \o SortFrom(seq, n - 1)

MaxLen(seq) == IF seq = <<>> THEN 0 ELSE CHOOSE n \in {Len(seq[i]) : i \in DOMAIN seq} :
                                              \A i \in DOMAIN seq : Len(seq[i]) <= n

\* mutant: the directories are left in the order they were collected
SortByDepthDesc_Unsorted(seq) == seq

\* mutant: the comparison of directory.rs:9 the other way round
SortByDepthDesc_ShallowFirst(seq) ==
    LET s == SortFrom(seq, MaxLen(seq))
    IN [i \in 1..Len(s) |-> s[Len(s) + 1 - i]]

\* directory.rs:9: directories.sort_by(|a, b| b.components().count().cmp(..))
SortByDepthDesc(seq) == SortFrom(seq, MaxLen(seq))

\* mutant: remove_dir_all instead of remove_dir
CanRemoveDir_NonEmpty(dir) ==
    /\ IsDir(dir)
    /\ Canon(dir) \notin env.unremovable

\* fs::remove_dir(dir): only an empty directory can be removed
CanRemoveDir(dir) ==
    /\ IsDir(dir)
    /\ ChildNames(Canon(dir)) = {}
    /\ Canon(dir) \notin env.unremovable

(***************************************************************************)
(* The runs: the trees, the folder pairs and the refused operations        *)
(***************************************************************************)
MaxTasks == 3

\* always there: a non-media file in the source root, a directory holding
\* only a file without extension, an empty directory inside an empty
\* directory, and the directories A/sub, A/c and B
BaseDirs == { <<>>, A, B, Ac, A \o Sub, A \o <<DirName("e")>>,
              A \o <<DirName("e"), DirName("f")>>, A \o <<DirName("k")>> }
BaseFiles == { A \o <<n_txt>>, A \o <<DirName("k"), m_noext>> }

\* the media files a source tree may hold, and the files a destination may
\* hold before the run, as paths below the root
MediaCandidates == { <<a_jpg>>, <<a_1_jpg>>, Sub \o <<a_jpg>>, Sub \o <<b_JPG>> }
PreCandidates == { <<a_jpg>>, <<a_1_jpg>>, Sub \o <<a_jpg>> }

MediaSets == {S \in SUBSET MediaCandidates : Cardinality(S) <= MaxTasks}

NoFaults == [unreadable |-> {}, nomkdir |-> {}, undeletable |-> {},
             unremovable |-> {}, unlistable |-> {}, unlistable_late |-> {},
             nometadata |-> {}]

\* every set of unreadable source files
ReadFaultEnvs(media) ==
    {[NoFaults EXCEPT !.unreadable = U] : U \in SUBSET {A \o r : r \in media}}

\* every set of source files that cannot be removed, or one other refused
\* operation
FaultEnvs(media) ==
    {[NoFaults EXCEPT !.undeletable = U] : U \in SUBSET {A \o r : r \in media}}
    \cup { [NoFaults EXCEPT !.nomkdir = {B \o Sub}],
           [NoFaults EXCEPT !.unremovable = {A \o <<DirName("e"), DirName("f")>>}],
           [NoFaults EXCEPT !.unlistable = {A \o Sub}],
           [NoFaults EXCEPT !.unlistable_late = {A \o <<DirName("e")>>}] }

ValidPairs == { <<A, B>>, <<A, Ac>>, <<L, B>>, <<L, Ac>> }
\* what the destination holds when it is nested or reached through the link
LinkedPre == { {}, {<<a_jpg>>}, {<<a_jpg>>, <<a_1_jpg>>} }
RefusedPairs == { <<A, A>>, <<A, L>>, <<L, A>>, <<Ac, A>>, <<Ac, L>>,
                  <<X, B>>, <<A, X>>, <<X, X>> }

\* what the two calls of select_folder gave: a folder each, a cancelled
\* dialog (Ok(None), main.rs:97-100) or an error (main.rs:76-101)
Cancelled == {"no source", "no destination"}
PickerErrors == {"source error", "destination error"}

Scenario(pair, media, pre, fl, e) ==
    [source |-> pair[1], dest |-> pair[2], media |-> media, pre |-> pre,
     full |-> fl, almost |-> {}, selection |-> "both", env |-> e]

Scenarios ==
    \* a healthy platform: every pair, every source tree, every destination
    {Scenario(<<A, B>>, media, pre, {}, NoFaults) :
        media \in MediaSets, pre \in SUBSET PreCandidates}
    \cup {Scenario(pair, media, pre, {}, NoFaults) :
            pair \in ValidPairs, media \in MediaSets, pre \in LinkedPre}
    \* refused operations
    \cup UNION {{Scenario(<<A, B>>, media, pre, {}, e) :
                    pre \in {{}, {<<a_jpg>>}}, e \in ReadFaultEnvs(media)} :
                media \in MediaSets}
    \cup UNION {{Scenario(<<A, B>>, media, {}, {}, e) : e \in FaultEnvs(media)} :
                media \in MediaSets}
    \* a destination where a.jpg and every a_<k>.jpg exist
    \cup {Scenario(<<A, B>>, media, {<<a_jpg>>}, {B \o <<a_jpg>>}, NoFaults) :
            media \in MediaSets}
    \* a destination where a.jpg and every a_<k>.jpg but a_10000.jpg exist
    \cup {[Scenario(<<A, B>>, media, {<<a_jpg>>}, {}, NoFaults)
                EXCEPT !.almost = {B \o <<a_jpg>>}] :
            media \in {{<<a_jpg>>}, {<<a_jpg>>, Sub \o <<b_JPG>>}}}
    \* a folder picker that the user cancels or that fails
    \cup {[Scenario(<<A, B>>, {<<a_jpg>>}, {}, {}, NoFaults)
                EXCEPT !.selection = sel] :
            sel \in Cancelled \cup PickerErrors}
    \* folder pairs that validate_folder_paths refuses
    \cup {Scenario(pair, {<<a_jpg>>}, {}, {}, NoFaults) : pair \in RefusedPairs}

\* the files of a scenario; the content of a file is the path it had at the start
InitialFiles(sc) ==
    LET D == Canon(sc.dest)
        paths == BaseFiles \cup {A \o r : r \in sc.media}
                    \cup (IF D \in BaseDirs THEN {D \o r : r \in sc.pre} ELSE {})
    IN [q \in paths |-> q]

InitialDirs(sc) ==
    LET D == Canon(sc.dest)
    IN BaseDirs \cup (IF D \in BaseDirs /\ Sub \o <<a_jpg>> \in sc.pre
                      THEN {D \o Sub} ELSE {})

Init ==
    \E sc \in Scenarios :
        /\ loops = {}
        /\ source = sc.source
        /\ dest = sc.dest
        /\ dirs = InitialDirs(sc)
        /\ files = InitialFiles(sc)
        /\ full = sc.full
        /\ almost = sc.almost
        /\ selection = sc.selection
        /\ env = sc.env
        /\ walk_exclude = None
        /\ total_size = 0
        /\ com = "uninitialized"
        /\ files0 = InitialFiles(sc)
        /\ dirs0 = InitialDirs(sc)
        /\ pc = "select"
        /\ validation = Pending
        /\ media_files = <<>>
        /\ task = <<>>
        /\ copied_count = 0
        /\ copy_result = Pending
        /\ answer = Pending
        /\ del_files = <<>>
        /\ del_task = <<>>
        /\ deleted_count = 0
        /\ directories = <<>>
        /\ delete_result = Pending
        /\ snap = {}
        /\ removed = {}
        /\ pruned = <<>>

Tasks == DOMAIN task

\* file_ops.rs:235-236
source_file(i) == Join(source, media_files[i])
\* mutant: the file name alone is joined, the directories are dropped
DestFile_Flat(relative_path) == Append(dest, Last(relative_path))

DestFile(relative_path) == Join(dest, relative_path)

\* mutant: the first failed copy is returned as the error of the call
CopyOutcome_FirstError ==
    IF \E i \in Tasks : task[i].pc = "err"
    THEN Err("Other", "copy failed")
    ELSE Ok(copied_count)

\* file_ops.rs:294-312: failed copies are counted and reported, the call
\* returns the number of copies that succeeded
CopyOutcome == Ok(copied_count)

\* mutant: the results are collected as soon as one task has ended
AllCopyTasksEnded_FirstOne == \E i \in Tasks : task[i].pc \in {"ok", "err"}

\* file_ops.rs:231-292: par_iter().map(..).collect() returns when every task
\* has given its result
AllCopyTasksEnded == \A i \in Tasks : task[i].pc \in {"ok", "err"}

\* mutant: the deletion prompt is shown after every successful return
ShowsPrompt_AnyCount(result) == result.ok

\* main.rs:33-38: the deletion prompt is shown for a count above zero
ShowsPrompt(result) == result.ok /\ result.val > 0

(***************************************************************************)
(* main.rs: main                                                           *)
(***************************************************************************)
\* main.rs:65-68: a run that reaches the end of main calls CoUninitialize
Cleanup(next) == IF next = "done" THEN "released" ELSE com

\* main.rs:14-21 and 58-63: CoInitializeEx, then the pickers; a cancelled
\* picker goes to the end of main, `?` on a picker's error returns at once
SelectFolders ==
    /\ pc = "select"
    /\ pc' = IF selection = "both" THEN "validate" ELSE "done"
    /\ com' = IF selection \in Cancelled THEN "released" ELSE "initialized"
    /\ UNCHANGED <<inputs, total_size, fsys, validation, copyv, answer, delv, snap, removed, pruned>>

\* mutant: the error is reported and the run goes on
AfterValidation_GoesOn(result) == "scan"

\* main.rs:25-29: `return Ok(())` on an error of validate_folder_paths
AfterValidation(result) == IF result.ok THEN "scan" ELSE "done"

\* main.rs:28 and main.rs:70: main returns Ok(()) from its early return and
\* from its end; the process exit status is success
main_result ==
    IF pc # "done" THEN Pending
    ELSE IF selection \in PickerErrors THEN Err("Com", "select_folder")
    ELSE Ok(<<>>)

\* main.rs:25-29
Validate ==
    /\ pc = "validate"
    /\ validation' = validate_folder_paths(source, dest)
    /\ pc' = AfterValidation(validation')
    /\ UNCHANGED <<inputs, total_size, fsys, copyv, answer, delv, snap, removed, pruned>>
    \* main.rs:28 returns before the end of main; else the run goes on
    /\ com' = com

\* the copy phase's scan of the source with the destination excluded, and the
\* entry of copy_media_files (file_ops.rs:207-231): no file, no task
Scan ==
    /\ pc = "scan"
    /\ media_files' = collect_media_files(source, source, Some(dest))
    /\ snap' = DOMAIN files
    /\ IF media_files' = <<>>
       THEN /\ copy_result' = Ok(0)
            /\ task' = <<>>
            /\ pc' = IF ShowsPrompt(copy_result') THEN "prompt" ELSE "done"
       ELSE /\ copy_result' = copy_result
            /\ task' = [i \in 1..Len(media_files') |->
                          [pc |-> "mkdir", dest_file |-> DestFile(media_files'[i])]]
            /\ pc' = "copy"
    /\ UNCHANGED <<inputs, total_size, fsys, validation, copied_count, answer, delv, removed, pruned>>
    /\ com' = Cleanup(pc')

(***************************************************************************)
(* file_ops.rs: copy_media_files, one task per file                        *)
(***************************************************************************)

\* file_ops.rs:239-251
CopyMkdir(i) ==
    /\ pc = "copy"
    /\ task[i].pc = "mkdir"
    /\ LET made == create_unique_directory_structure(dest, Parent(task[i].dest_file))
       IN /\ dirs' = made.dirs
          /\ task' = [task EXCEPT ![i].pc = IF made.ok THEN "unique" ELSE "err"]
    /\ UNCHANGED <<inputs, total_size, com, files, pc, validation, media_files, copied_count,
                   copy_result, answer, delv, snap, removed, pruned>>

\* file_ops.rs:253-264
CopyUnique(i) ==
    /\ pc = "copy"
    /\ task[i].pc = "unique"
    /\ LET unique == get_unique_file_path(task[i].dest_file)
       IN task' = IF unique.ok
                  THEN [task EXCEPT ![i] = [pc |-> "write", dest_file |-> unique.val]]
                  ELSE [task EXCEPT ![i].pc = "err"]
    /\ UNCHANGED <<inputs, total_size, com, fsys, pc, validation, media_files, copied_count,
                   copy_result, answer, delv, snap, removed, pruned>>

\* fs::copy(from, to) succeeds: from is a readable file, to can be created or
\* truncated
CanCopy(from, to) ==
    /\ Canon(from) \in DOMAIN files
    /\ Canon(from) \notin env.unreadable
    /\ IsDir(Parent(to))
    /\ ~IsDir(to)
    /\ ~InFull(Canon(to))

\* mutant: fs::rename instead of fs::copy, the source file is gone afterwards
CopyFile_Moves(i) ==
    /\ pc = "copy"
    /\ task[i].pc = "write"
    /\ IF CanCopy(source_file(i), task[i].dest_file)
       THEN /\ files' = [q \in (DOMAIN files \cup {Canon(task[i].dest_file)})
                                \ {Canon(source_file(i))} |->
                            IF q = Canon(task[i].dest_file)
                            THEN files[Canon(source_file(i))]
                            ELSE files[q]]
            /\ copied_count' = copied_count + 1
            /\ task' = [task EXCEPT ![i].pc = "ok"]
       ELSE /\ UNCHANGED <<files, copied_count>>
            /\ task' = [task EXCEPT ![i].pc = "err"]
    /\ UNCHANGED <<inputs, total_size, com, dirs, pc, validation, media_files, copy_result, answer,
                   delv, snap, removed, pruned>>

\* file_ops.rs:266-289
CopyFile(i) ==
    /\ pc = "copy"
    /\ task[i].pc = "write"
    /\ IF CanCopy(source_file(i), task[i].dest_file)
       THEN /\ files' = [q \in DOMAIN files \cup {Canon(task[i].dest_file)} |->
                            IF q = Canon(task[i].dest_file)
                            THEN files[Canon(source_file(i))]
                            ELSE files[q]]
            /\ copied_count' = copied_count + 1
            /\ task' = [task EXCEPT ![i].pc = "ok"]
       ELSE /\ UNCHANGED <<files, copied_count>>
            /\ task' = [task EXCEPT ![i].pc = "err"]
    /\ UNCHANGED <<inputs, total_size, com, dirs, pc, validation, media_files, copy_result, answer,
                   delv, snap, removed, pruned>>

\* file_ops.rs:294-312 and main.rs:33-37: every task has ended
CopyReturn ==
    /\ pc = "copy"
    /\ AllCopyTasksEnded
    /\ copy_result' = CopyOutcome
    /\ pc' = IF ShowsPrompt(copy_result') THEN "prompt" ELSE "done"
    /\ UNCHANGED <<inputs, total_size, fsys, validation, media_files, task, copied_count,
                   answer, delv, snap, removed, pruned>>
    /\ com' = Cleanup(pc')

\* mutant: the originals are deleted whatever the answer
AfterAnswer_Delete(yes) == "delete"

\* main.rs:38-53: Ok(true) starts delete_original_files, Ok(false) keeps the
\* originals
AfterAnswer(yes) == IF yes THEN "delete" ELSE "done"

\* main.rs:38-53 and dialogs.rs:45-62
Prompt ==
    /\ pc = "prompt"
    /\ \E yes \in BOOLEAN :
          /\ answer' = Ok(yes)
          /\ pc' = AfterAnswer(yes)
    /\ UNCHANGED <<inputs, total_size, fsys, validation, copyv, delv, snap, removed, pruned>>
    /\ com' = Cleanup(pc')

(***************************************************************************)
(* file_ops.rs: delete_original_files                                      *)
(***************************************************************************)
DelTasks == DOMAIN del_task
\* mutant: the relative path is joined to the destination root
file_path_InDestination(i) == Join(dest, del_files[i])

file_path(i) == Join(source, del_files[i])

\* file_ops.rs:327-349: collect() returns when every delete task has ended
AllDeleteTasksEnded == \A i \in DelTasks : del_task[i] \in {"ok", "err"}

\* mutant: the first failed removal is returned as the error of the call
DeleteOutcome_FirstError ==
    IF \E i \in DelTasks : del_task[i] = "err"
    THEN Err("Other", "remove failed")
    ELSE Ok(deleted_count)

\* file_ops.rs:351-372: failed removals are counted and reported, the call
\* returns the number of files removed
DeleteOutcome == Ok(deleted_count)

\* file_ops.rs:315-325
DeleteScan ==
    /\ pc = "delete"
    /\ del_files' = collect_media_files(source, source, None)
    /\ snap' = DOMAIN files
    /\ IF del_files' = <<>>
       THEN /\ delete_result' = Ok(0)
            /\ del_task' = <<>>
            /\ pc' = "done"
       ELSE /\ delete_result' = delete_result
            /\ del_task' = [i \in 1..Len(del_files') |-> "run"]
            /\ pc' = "deleting"
    /\ UNCHANGED <<inputs, total_size, fsys, validation, copyv, answer, deleted_count,
                   directories, removed, pruned>>
    /\ com' = Cleanup(pc')

\* fs::remove_file(path) succeeds
CanRemoveFile(path) ==
    /\ Canon(path) \in DOMAIN files
    /\ Canon(path) \notin env.undeletable

\* file_ops.rs:329-348
DeleteFile(i) ==
    /\ pc = "deleting"
    /\ del_task[i] = "run"
    /\ IF CanRemoveFile(file_path(i))
       THEN /\ files' = [q \in DOMAIN files \ {Canon(file_path(i))} |-> files[q]]
            /\ removed' = removed \cup {Canon(file_path(i))}
            /\ deleted_count' = deleted_count + 1
            /\ del_task' = [del_task EXCEPT ![i] = "ok"]
       ELSE /\ UNCHANGED <<files, removed, deleted_count>>
            /\ del_task' = [del_task EXCEPT ![i] = "err"]
    /\ UNCHANGED <<inputs, total_size, com, dirs, pc, validation, copyv, answer, del_files,
                   directories, delete_result, snap, pruned>>

\* file_ops.rs:351-370 and directory.rs:7-9: every task has ended
CollectDirectories ==
    /\ pc = "deleting"
    /\ AllDeleteTasksEnded
    /\ directories' = SortByDepthDesc(collect_directories(source))
    /\ pc' = "prune"
    /\ UNCHANGED <<inputs, total_size, fsys, validation, copyv, answer, del_files, del_task,
                   deleted_count, delete_result, snap, removed, pruned>>
    /\ com' = Cleanup(pc')

\* directory.rs:11-27: one turn of the loop
PruneStep ==
    /\ pc = "prune"
    /\ directories # <<>>
    /\ LET dir == Head(directories)
       IN IF dir # source /\ CanRemoveDir(dir)
          THEN /\ dirs' = dirs \ {Canon(dir)}
               /\ pruned' = Append(pruned, Canon(dir))
          ELSE UNCHANGED <<dirs, pruned>>
    /\ directories' = Tail(directories)
    /\ UNCHANGED <<inputs, total_size, com, files, pc, validation, copyv, answer, del_files, del_task,
                   deleted_count, delete_result, snap, removed>>

\* directory.rs:29 and file_ops.rs:372
DeleteReturn ==
    /\ pc = "prune"
    /\ directories = <<>>
    /\ delete_result' = DeleteOutcome
    /\ pc' = "done"
    /\ UNCHANGED <<inputs, total_size, fsys, validation, copyv, answer, del_files, del_task,
                   deleted_count, directories, snap, removed, pruned>>
    /\ com' = Cleanup(pc')

Next ==
    \/ SelectFolders
    \/ Validate
    \/ Scan
    \/ \E i \in Tasks : CopyMkdir(i)
    \/ \E i \in Tasks : CopyUnique(i)
    \/ \E i \in Tasks : CopyFile(i)
    \/ CopyReturn
    \/ Prompt
    \/ DeleteScan
    \/ \E i \in DelTasks : DeleteFile(i)
    \/ CollectDirectories
    \/ PruneStep
    \/ DeleteReturn

Spec == Init /\ [][Next]_vars

(***************************************************************************)
(* What the claims speak of                                                *)
(***************************************************************************)
\* no remove_file and no remove_dir has run yet
DeleteNotStarted == pc \notin {"delete", "deleting", "prune"} /\ ~Returned(delete_result)

\* copy_media_files has returned and the tree is as it left it
AfterCopy == Returned(copy_result) /\ DeleteNotStarted

\* the path existed when the run started
Existed0(p) ==
    Canon(p) \in dirs0 \cup DOMAIN files0 \/ InFull(Canon(p)) \/ InAlmost(Canon(p))

\* the files that were not there when the run started
NewFiles == DOMAIN files \ DOMAIN files0

\* p is orig with one counter >= 1 appended to its stem, in the same directory
Suffixed(p, orig) ==
    /\ Parent(p) = Parent(orig)
    /\ Last(p).base = Last(orig).base
    /\ Last(p).ext = Last(orig).ext
    /\ Len(Last(p).suf) = Len(Last(orig).suf) + 1
    /\ SubSeq(Last(p).suf, 1, Len(Last(orig).suf)) = Last(orig).suf
    /\ Last(p).suf[Len(Last(p).suf)] >= 1

(***************************************************************************)
(* C1: when none of the mirrored relative paths exists in the destination  *)
(* and the platform refuses no read and no directory creation, then after  *)
(* copy_media_files has returned, under every interleaving of the tasks,   *)
(* the files new in the tree are exactly the N mirrored paths, each with   *)
(* the content of its source file, and the call returned N.                *)
(***************************************************************************)
C1_NoCollision == \A i \in Tasks : ~Existed0(Join(dest, media_files[i]))
C1_Healthy == env.unreadable = {} /\ env.nomkdir = {}

C1_MirroredCopies ==
    AfterCopy /\ C1_NoCollision /\ C1_Healthy =>
        /\ copy_result = Ok(Len(media_files))
        /\ NewFiles = {Canon(Join(dest, media_files[i])) : i \in Tasks}
        /\ Cardinality(NewFiles) = Len(media_files)
        /\ \A i \in Tasks :
              /\ Canon(Join(dest, media_files[i])) \in DOMAIN files
              /\ files[Canon(Join(dest, media_files[i]))]
                    = files0[Canon(Join(source, media_files[i]))]

C1_Witness ==
    /\ AfterCopy /\ C1_NoCollision /\ C1_Healthy
    /\ Len(media_files) = 3
    /\ \E i, j \in Tasks : Len(media_files[i]) = 2 /\ Len(media_files[j]) = 1
                             /\ Last(media_files[i]) = Last(media_files[j])
    /\ Cardinality(NewFiles) = 3

(***************************************************************************)
(* C2: within one copy phase no two tasks write to the same destination    *)
(* path, and the count copy_media_files returns is the number of files the *)
(* phase added to the destination.                                         *)
(***************************************************************************)
C2_NoSharedDestination ==
    /\ \A i, j \in Tasks :
          i # j /\ task[i].pc = "ok" /\ task[j].pc = "ok"
             => Canon(task[i].dest_file) # Canon(task[j].dest_file)
    /\ AfterCopy /\ copy_result.ok => copy_result.val = Cardinality(NewFiles)

(***************************************************************************)
(* C3: when a file exists in the destination at the relative path of a     *)
(* source media file, the copy of that file is written under a suffixed    *)
(* name stem_<k>.ext in the same directory (it is written whenever the     *)
(* source can be read and a free suffixed name is left), and every file    *)
(* that was in the destination before the copy phase is still there with   *)
(* its content.                                                            *)
(***************************************************************************)
C3_PreExisting(i) == Canon(Join(dest, media_files[i])) \in DOMAIN files0
C3_CanBeCopied(i) ==
    /\ Canon(Join(source, media_files[i])) \notin env.unreadable
    /\ Canon(Join(dest, media_files[i])) \notin full

C3_SuffixedAndUntouched ==
    /\ DeleteNotStarted =>
          \A q \in DOMAIN files0 :
              StartsWith(q, Canon(dest)) => q \in DOMAIN files /\ files[q] = files0[q]
    /\ AfterCopy =>
          \A i \in Tasks :
              C3_PreExisting(i) =>
                 /\ task[i].pc = "ok" =>
                       /\ Suffixed(task[i].dest_file, Join(dest, media_files[i]))
                       /\ Canon(task[i].dest_file) \in NewFiles
                 /\ C3_CanBeCopied(i) => task[i].pc = "ok"

C3_Witness ==
    /\ AfterCopy
    /\ \E i \in Tasks :
          /\ C3_PreExisting(i)
          /\ task[i].pc = "ok"
          /\ Last(task[i].dest_file) = Name("a", <<2>>, "jpg")
          /\ Canon(Join(dest, <<a_1_jpg>>)) \in DOMAIN files0

(***************************************************************************)
(* C4: every source file the delete phase removed is a file the copy phase *)
(* of the same run copied successfully.                                    *)
(***************************************************************************)
C4_OnlyCopiedFilesDeleted ==
    \A f \in removed :
        \E i \in Tasks : task[i].pc = "ok" /\ Canon(source_file(i)) = f

(***************************************************************************)
(* C5: when the destination is nested under the source, the delete phase's *)
(* scan lists no file of the destination subtree, and after the run every  *)
(* file copied into the destination and the destination directory exist.   *)
(***************************************************************************)
Nested == Canon(dest) # Canon(source) /\ StartsWith(Canon(dest), Canon(source))

C5_DestinationSurvives ==
    Nested =>
        /\ \A k \in DOMAIN del_files :
              ~StartsWith(Canon(Join(source, del_files[k])), Canon(dest))
        /\ Returned(delete_result) =>
              /\ Canon(dest) \in dirs
              /\ \A i \in Tasks :
                    task[i].pc = "ok" => Canon(task[i].dest_file) \in DOMAIN files

(***************************************************************************)
(* C6: whatever subset F of the N listed files cannot be copied (source    *)
(* unreadable, directory not created, no free name left),                  *)
(* copy_media_files runs every task to its end, copies every file outside  *)
(* F and returns Ok(N - |F|).                                              *)
(***************************************************************************)
\* the platform refuses to create a directory on the way to p that is missing
C6_NoDirectory(p) ==
    \E n \in 1..Len(p) :
        /\ Canon(SubSeq(p, 1, n)) \notin dirs0
        /\ Canon(SubSeq(p, 1, n)) \in env.nomkdir

\* the copy of media_files[i] cannot succeed in this run
C6_Fails(i) ==
    \/ Canon(Join(source, media_files[i])) \in env.unreadable
    \/ C6_NoDirectory(Parent(Join(dest, media_files[i])))
    \/ /\ Canon(Join(dest, media_files[i])) \in DOMAIN files0
       /\ Canon(Join(dest, media_files[i])) \in full

C6_F == {i \in Tasks : C6_Fails(i)}

C6_PerFileFailuresNotFatal ==
    Returned(copy_result) =>
        /\ copy_result = Ok(Len(media_files) - Cardinality(C6_F))
        /\ \A i \in Tasks : task[i].pc = IF i \in C6_F THEN "err" ELSE "ok"
        /\ AfterCopy =>
              \A i \in Tasks \ C6_F : Canon(task[i].dest_file) \in NewFiles

C6_Witness ==
    /\ Returned(copy_result)
    /\ Len(media_files) = 3
    /\ Cardinality(C6_F) = 1
    /\ env.unreadable # {}
    /\ copy_result = Ok(2)

(***************************************************************************)
(* C7: with every directory listable, the list collect_media_files(root,   *)
(* root, exclude) produces holds the root-relative path of a regular file  *)
(* if and only if the lowercased extension of the file is in the media set *)
(* (a file without extension is never listed) and the file does not lie    *)
(* under the directory whose canonical path is that of exclude.            *)
(***************************************************************************)
\* `snap` is the tree the copy phase's scan saw, or the delete phase's
CopyScanIsLatest ==
    /\ validation.ok
    /\ pc \notin {"validate", "scan", "deleting", "prune"}
    /\ ~Returned(delete_result)
DeleteScanIsLatest == pc \in {"deleting", "prune"} \/ Returned(delete_result)

C7_IsMedia(q) ==
    Last(q).ext # NoExt /\ ToLowercase(Last(q).ext) \in MediaExtensions
C7_UnderExcluded(q, exclude) ==
    exclude.some /\ Existed0(exclude.val) /\ StartsWith(q, Canon(exclude.val))
C7_ToList(q, exclude) ==
    StartsWith(q, Canon(source)) /\ C7_IsMedia(q) /\ ~C7_UnderExcluded(q, exclude)

C7_Lists(list, exclude) ==
    /\ \A k \in DOMAIN list :
          /\ Canon(Join(source, list[k])) \in snap
          /\ C7_ToList(Canon(Join(source, list[k])), exclude)
    /\ \A q \in snap :
          C7_ToList(q, exclude) =>
             \E k \in DOMAIN list : list[k] = StripPrefix(q, Canon(source))

C7_WalkListsExactlyMedia ==
    env.unlistable = {} =>
        /\ CopyScanIsLatest => C7_Lists(media_files, Some(dest))
        /\ DeleteScanIsLatest => C7_Lists(del_files, None)

C7_Witness ==
    /\ pc = "copy"
    /\ env.unlistable = {}
    /\ source = L /\ dest = Ac
    /\ Ac \o <<a_jpg>> \in snap
    /\ A \o <<a_jpg>> \in snap
    /\ Range(media_files) = {<<a_jpg>>, Sub \o <<b_JPG>>}

(***************************************************************************)
(* C8: after delete_original_files has run and removed every media file    *)
(* (no directory refused to be listed or removed), every directory below   *)
(* the source root that holds no file, itself or in its descendants, has   *)
(* been removed, and the source root still exists.                         *)
(***************************************************************************)
C8_AllDeleted == \A i \in DelTasks : del_task[i] = "ok"
C8_HoldsAFile(d) == \E q \in DOMAIN files : StartsWith(q, d)

C8_EmptyDirectoriesPruned ==
    /\ Returned(delete_result)
    /\ C8_AllDeleted
    /\ env.unremovable = {} /\ env.unlistable = {} /\ env.unlistable_late = {}
    =>
    /\ delete_result.ok
    /\ Canon(source) \in dirs
    /\ \A d \in dirs :
          StartsWith(d, Canon(source)) /\ d # Canon(source) => C8_HoldsAFile(d)

C8_Witness ==
    /\ Returned(delete_result)
    /\ C8_AllDeleted
    /\ env.unremovable = {} /\ env.unlistable = {} /\ env.unlistable_late = {}
    /\ Len(del_files) >= 2
    /\ A \o Sub \in dirs0 /\ A \o Sub \notin dirs
    /\ A \o <<DirName("e")>> \notin dirs
    /\ A \o <<DirName("k")>> \in dirs
    /\ A \in dirs

(***************************************************************************)
(* C9: when both paths canonicalize, validate_folder_paths returns an      *)
(* error if and only if the canonical destination is the canonical source  *)
(* or an ancestor of it; it returns Ok when the source is a strict         *)
(* ancestor of the destination.                                            *)
(***************************************************************************)
C9_AncestorOrEqual(anc, p) == \E n \in 0..Len(p) : SubSeq(p, 1, n) = anc

C9_ErrorIffDestinationContainsSource ==
    Returned(validation) /\ Existed0(source) /\ Existed0(dest) =>
        /\ ~validation.ok <=> C9_AncestorOrEqual(Canon(dest), Canon(source))
        /\ C9_AncestorOrEqual(Canon(source), Canon(dest)) /\ Canon(source) # Canon(dest)
              => validation.ok

C9_Witness ==
    /\ Returned(validation)
    /\ source = L /\ dest = Ac
    /\ validation.ok

(***************************************************************************)
(* C10 as claimed: validate(A, A) fails with an invalid-relationship       *)
(* error, validate(A, A/child) fails, validate(A/child, A) succeeds.       *)
(***************************************************************************)
C10_InvalidRelationship == ~validation.ok /\ validation.kind = "InvalidInput"

C10_AsClaimed ==
    Returned(validation) =>
        /\ source = A /\ dest = A => C10_InvalidRelationship
        /\ source = A /\ dest = Ac => ~validation.ok
        /\ source = Ac /\ dest = A => validation.ok

(***************************************************************************)
(* C10 amended: validate(A, A) fails with an invalid-relationship error,   *)
(* validate(A, A/child) succeeds, and validate(A/child, A) fails with an   *)
(* invalid-relationship error.                                             *)
(***************************************************************************)
C10_Amended ==
    Returned(validation) =>
        /\ source = A /\ dest = A => C10_InvalidRelationship
        /\ source = A /\ dest = Ac => validation.ok
        /\ source = Ac /\ dest = A => C10_InvalidRelationship

C10_Witness ==
    /\ Returned(validation)
    /\ source = Ac /\ dest = A
    /\ C10_InvalidRelationship

(***************************************************************************)
(* C11: whatever subset of the listed media files cannot be removed,       *)
(* delete_original_files runs every delete task to its end, removes every  *)
(* file whose removal is not refused, and returns Ok with the number of    *)
(* files removed; and it returns only from the pruning step, after the     *)
(* last directory of the pruning list has been tried.                      *)
(***************************************************************************)
C11_Fails(i) == Canon(file_path(i)) \in env.undeletable

C11_Counted ==
    Returned(delete_result) =>
        /\ \A i \in DelTasks : del_task[i] = IF C11_Fails(i) THEN "err" ELSE "ok"
        /\ \A i \in DelTasks : ~C11_Fails(i) => Canon(file_path(i)) \notin DOMAIN files
        /\ removed = {Canon(file_path(i)) : i \in {j \in DelTasks : ~C11_Fails(j)}}
        /\ delete_result = Ok(Cardinality(removed))

C11_ReturnsFromPruning ==
    (~Returned(delete_result) /\ Returned(delete_result') /\ del_files # <<>>)
        => pc = "prune" /\ directories = <<>>

C11_RemovalFailuresNotFatal ==
    []C11_Counted /\ [][C11_ReturnsFromPruning]_vars

C11_Witness ==
    /\ Returned(delete_result)
    /\ Len(del_files) = 3
    /\ Cardinality({i \in DelTasks : C11_Fails(i)}) = 2
    /\ delete_result = Ok(1)
    /\ pruned # <<>>

(***************************************************************************)
(* C12: phase barrier.  Whenever the deletion prompt is shown or has been  *)
(* answered, every copy task has ended with success or failure; whenever   *)
(* pruning is at a directory-removal attempt or has removed a directory,   *)
(* every delete task has ended.                                            *)
(***************************************************************************)
C12_PhaseBarrier ==
    /\ (pc = "prompt" \/ Returned(answer)) =>
          \A i \in Tasks : task[i].pc \in {"ok", "err"}
    /\ (pc = "prune" \/ pruned # <<>>) =>
          \A i \in DelTasks : del_task[i] \in {"ok", "err"}

C12_Witness ==
    /\ pc = "prune"
    /\ directories # <<>>
    /\ answer = Ok(TRUE)
    /\ Len(media_files) = 3
    /\ \E i \in Tasks : task[i].pc = "err"
    /\ \E i \in Tasks : task[i].pc = "ok"
    /\ Len(del_files) = 3

(***************************************************************************)
(* C13 as claimed: no source file or directory is removed unless the user  *)
(* answered yes to the deletion prompt; when the user declines or a folder *)
(* picker is cancelled the run ends with the source tree unchanged; a      *)
(* delete phase that has started runs to its end.                          *)
(***************************************************************************)
C13_Under(q) == StartsWith(q, Canon(source))
C13_SourceFiles(fs) == {q \in DOMAIN fs : C13_Under(q)}
C13_SourceDirs(ds) == {d \in ds : C13_Under(d)}

C13_NothingRemovedWithoutYes ==
    answer # Ok(TRUE) => removed = {} /\ pruned = <<>>

C13_DeleteRunsToItsEnd ==
    pc = "done" /\ answer = Ok(TRUE) =>
        /\ Returned(delete_result)
        /\ \A i \in DelTasks : del_task[i] \in {"ok", "err"}
        /\ directories = <<>>

C13_AsClaimed ==
    /\ C13_NothingRemovedWithoutYes
    /\ C13_DeleteRunsToItsEnd
    /\ pc = "done" /\ answer # Ok(TRUE) =>
          /\ C13_SourceFiles(files) = C13_SourceFiles(files0)
          /\ \A q \in C13_SourceFiles(files0) : files[q] = files0[q]
          /\ C13_SourceDirs(dirs) = C13_SourceDirs(dirs0)
          /\ selection # "both" => files = files0 /\ dirs = dirs0

(***************************************************************************)
(* C13 amended: no source file or directory is removed unless the user     *)
(* answered yes to the deletion prompt; when the user declines or a folder *)
(* picker is cancelled the run ends with every file and directory of the   *)
(* source tree in place and every file's content unchanged, the only       *)
(* additions to the source tree being what the copy phase created under a  *)
(* destination nested in the source; a delete phase that has started runs  *)
(* to its end.                                                             *)
(***************************************************************************)
C13_Amended ==
    /\ C13_NothingRemovedWithoutYes
    /\ C13_DeleteRunsToItsEnd
    /\ pc = "done" /\ answer # Ok(TRUE) =>
          /\ C13_SourceFiles(files0) \subseteq C13_SourceFiles(files)
          /\ \A q \in C13_SourceFiles(files0) : files[q] = files0[q]
          /\ C13_SourceDirs(dirs0) \subseteq C13_SourceDirs(dirs)
          /\ \A q \in (C13_SourceFiles(files) \ C13_SourceFiles(files0))
                        \cup (C13_SourceDirs(dirs) \ C13_SourceDirs(dirs0)) :
                Nested /\ StartsWith(q, Canon(dest))
          /\ selection # "both" => files = files0 /\ dirs = dirs0

C13_Witness ==
    /\ pc = "done"
    /\ answer = Ok(FALSE)
    /\ Nested
    /\ C13_SourceFiles(files) # C13_SourceFiles(files0)
    /\ C13_SourceDirs(dirs) # C13_SourceDirs(dirs0)

(***************************************************************************)
(* C14: when validate_folder_paths has returned an error the run has       *)
(* ended: nothing was scanned, no copy, delete or prune step has run, the  *)
(* file system is as it was at the start, and main has returned Ok(()),    *)
(* the success exit status.                                                *)
(***************************************************************************)
C14_ValidationFailed == Returned(validation) /\ ~validation.ok

C14_ValidationErrorEndsRun ==
    C14_ValidationFailed =>
        /\ pc = "done"
        /\ main_result = Ok(<<>>)
        /\ files = files0 /\ dirs = dirs0
        /\ snap = {} /\ media_files = <<>> /\ task = <<>>
        /\ ~Returned(copy_result) /\ ~Returned(answer)
        /\ del_files = <<>> /\ del_task = <<>> /\ ~Returned(delete_result)
        /\ removed = {} /\ pruned = <<>>

C14_Witness ==
    /\ C14_ValidationFailed
    /\ validation.kind = "NotFound"
    /\ Existed0(source)
    /\ pc = "done"

(***************************************************************************)
(* C15: when the scan of the copy phase lists no file, copy_media_files    *)
(* returns Ok(0) and has created no file and no directory, and the run     *)
(* ends there: no deletion prompt, no delete scan, nothing removed or      *)
(* pruned.                                                                 *)
(***************************************************************************)
C15_EmptyList == Returned(copy_result) /\ media_files = <<>>

C15_EmptyListShortCircuits ==
    C15_EmptyList =>
        /\ copy_result = Ok(0)
        /\ task = <<>>
        /\ files = files0 /\ dirs = dirs0
        /\ pc = "done"
        /\ ~Returned(answer)
        /\ del_files = <<>> /\ del_task = <<>> /\ ~Returned(delete_result)
        /\ removed = {} /\ pruned = <<>>

C15_Witness ==
    /\ C15_EmptyList
    /\ source = A /\ dest = Ac
    /\ Ac \o <<a_jpg>> \in DOMAIN files
    /\ pc = "done"

(***************************************************************************)
(* get_unique_file_path as a function of the file system.  UniqueSpec      *)
(* draws a destination directory B from the files it may hold (with or     *)
(* without a crowded family of a.jpg), calls the function on a candidate   *)
(* as a copy task does (file_ops.rs:253-264), and calls it again on the    *)
(* path it returned.  task[1] and task[2] hold the two results.            *)
(***************************************************************************)
UniquePre == PreCandidates \cup {<<m_noext>>}
UniqueCandidates == {Join(B, r) : r \in MediaCandidates \cup {<<m_noext>>}}
UniqueFamilies == { [full |-> {}, almost |-> {}],
                    [full |-> {B \o <<a_jpg>>}, almost |-> {}],
                    [full |-> {}, almost |-> {B \o <<a_jpg>>}] }

UniqueInit ==
    \E pre \in SUBSET UniquePre, fam \in UniqueFamilies :
        /\ fam.full \cup fam.almost # {} => <<a_jpg>> \in pre
        /\ loops = {}
        /\ source = A /\ dest = B
        /\ dirs = BaseDirs \cup {B \o Sub}
        /\ files = [q \in {B \o r : r \in pre} |-> q]
        /\ full = fam.full
        /\ almost = fam.almost
        /\ selection = "both"
        /\ env = NoFaults
        /\ walk_exclude = None
        /\ total_size = 0
        /\ com = "uninitialized"
        /\ files0 = files
        /\ dirs0 = dirs
        /\ pc = "unique"
        /\ validation = Ok(<<>>)
        /\ media_files = <<>>
        /\ task = <<>>
        /\ copied_count = 0
        /\ copy_result = Pending
        /\ answer = Pending
        /\ del_files = <<>>
        /\ del_task = <<>>
        /\ deleted_count = 0
        /\ directories = <<>>
        /\ delete_result = Pending
        /\ snap = {}
        /\ removed = {}
        /\ pruned = <<>>

\* file_ops.rs:253-264: what the task keeps of the result
UniqueResult(original_path) ==
    LET unique == get_unique_file_path(original_path)
    IN IF unique.ok
       THEN [pc |-> "write", dest_file |-> unique.val]
       ELSE [pc |-> "err", dest_file |-> original_path]

ApplyUnique ==
    /\ pc = "unique"
    /\ \E p \in UniqueCandidates :
          /\ media_files' = <<StripPrefix(p, dest)>>
          /\ task' = <<UniqueResult(p)>>
    /\ pc' = "unique again"
    /\ UNCHANGED <<inputs, total_size, fsys, validation, copied_count, copy_result, answer,
                   delv, snap, removed, pruned>>
    /\ UNCHANGED com

ApplyUniqueAgain ==
    /\ pc = "unique again"
    /\ task[1].pc = "write"
    /\ task' = Append(task, UniqueResult(task[1].dest_file))
    /\ pc' = "done"
    /\ UNCHANGED <<inputs, total_size, fsys, validation, media_files, copied_count, copy_result,
                   answer, delv, snap, removed, pruned>>
    /\ UNCHANGED com

UniqueNext == ApplyUnique \/ ApplyUniqueAgain

UniqueSpec == UniqueInit /\ [][UniqueNext]_vars

\* the candidate the function was called on, and whether it has been called
UniqueArg == Join(dest, media_files[1])
UniqueCalled == pc \in {"unique again", "done"} /\ Len(task) >= 1

\* stem_<k>.ext, or stem_<k>, next to the candidate p
C17_Name(p, k) ==
    Append(Parent(p), Name(Last(p).base, Append(Last(p).suf, k), Last(p).ext))
C17_Counter(p) == Last(p).suf[Len(Last(p).suf)]

(***************************************************************************)
(* C16: get_unique_file_path returns its argument when the argument does   *)
(* not exist; called again on the path it returned, with the file system   *)
(* unchanged, it returns that path again; the calls leave every file and   *)
(* directory as it was.                                                    *)
(***************************************************************************)
C16_UnchangedWhenFree ==
    UniqueCalled =>
        /\ ~Exists(UniqueArg) => task[1] = [pc |-> "write", dest_file |-> UniqueArg]
        /\ Len(task) = 2 => task[2] = task[1]
        /\ files = files0 /\ dirs = dirs0

C16_Witness ==
    /\ UniqueCalled
    /\ Len(task) = 2
    /\ ~Exists(UniqueArg)
    /\ UniqueArg = B \o Sub \o <<b_JPG>>
    /\ task[2].dest_file = UniqueArg

(***************************************************************************)
(* C17: when the candidate exists, the path get_unique_file_path returns   *)
(* is stem_<k>.ext (stem_<k> for a candidate without extension) in the     *)
(* candidate's directory, k >= 1 is the smallest counter whose path does   *)
(* not exist, and the returned path does not exist.                        *)
(***************************************************************************)
C17_FirstFreeSuffix ==
    UniqueCalled /\ Exists(UniqueArg) /\ task[1].pc = "write" =>
        LET r == task[1].dest_file
        IN /\ Suffixed(r, UniqueArg)
           /\ r = C17_Name(UniqueArg, C17_Counter(r))
           /\ Last(UniqueArg).ext = NoExt => Last(r).ext = NoExt
           /\ ~Exists(r)
           /\ \A j \in 1..(C17_Counter(r) - 1) : Exists(C17_Name(UniqueArg, j))

C17_Witness ==
    /\ UniqueCalled
    /\ UniqueArg = B \o <<a_jpg>>
    /\ Exists(UniqueArg)
    /\ Exists(B \o <<a_1_jpg>>)
    /\ task[1] = [pc |-> "write", dest_file |-> B \o <<Name("a", <<2>>, "jpg")>>]

(***************************************************************************)
(* C18: get_unique_file_path returns the exhaustion error exactly when the *)
(* candidate and its 10,000 suffixed names stem_1 .. stem_10000 all exist; *)
(* in every other case it returns a path that does not exist, whose        *)
(* counter, if one was appended, is at most 10,000; every call returns.    *)
(***************************************************************************)
C18_Attempts == 10000

C18_AllTaken(p) ==
    Exists(p) /\ \A k \in 1..C18_Attempts : Exists(C17_Name(p, k))

C18_ExhaustionAfterTenThousand ==
    UniqueCalled =>
        /\ task[1].pc = "err" <=> C18_AllTaken(UniqueArg)
        /\ task[1].pc = "write" =>
              /\ ~Exists(task[1].dest_file)
              /\ task[1].dest_file # UniqueArg =>
                    C17_Counter(task[1].dest_file) \in 1..C18_Attempts

C18_Witness ==
    /\ UniqueCalled
    /\ full # {}
    /\ C18_AllTaken(UniqueArg)
    /\ task[1].pc = "err"

(***************************************************************************)
(* C19: create_unique_directory_structure(dest_root, target_dir) run a     *)
(* second time on a target after a first run that succeeded returns Ok and *)
(* leaves the set of directories as the first run left it; in a copy       *)
(* phase, the task that runs it on a target another task has already       *)
(* created goes on and the directories do not change.                      *)
(***************************************************************************)
C19_Targets ==
    {Parent(DestFile(r)) : r \in MediaCandidates}
        \cup {DestFile(Sub \o <<DirName("deep")>>)}

C19_Twice ==
    \A t \in C19_Targets :
        LET first == CreateStructureIn(dirs, dest, t)
        IN first.ok =>
              CreateStructureIn(first.dirs, dest, t) = [ok |-> TRUE, dirs |-> first.dirs]

\* task j has run it with success on the target of task i
C19_SecondRun(i) ==
    \E j \in Tasks \ {i} :
        /\ Parent(DestFile(media_files[j])) = Parent(DestFile(media_files[i]))
        /\ task[j].pc \in {"unique", "write", "ok"}

C19_SecondRunChangesNothing ==
    \A i \in Tasks :
        (i \in DOMAIN task' /\ task[i].pc = "mkdir" /\ task'[i].pc # "mkdir"
            /\ C19_SecondRun(i))
        => dirs' = dirs /\ task'[i].pc = "unique"

main_MediaExtensions ==
    { "jpg", "jpeg", "png", "gif", "bmp", "tiff", "tif", "webp", "svg", "ico",
      "heic", "heif", "raw", "cr2", "nef", "arw", "dng", "orf", "rw2",
      "mp4", "avi", "mkv", "mov", "wmv", "flv", "webm", "m4v", "3gp", "3g2", "f4v",
      "asf", "rm", "rmvb", "vob", "ogv", "drc", "mng", "qt", "yuv", "m2v", "m4p",
      "mpg", "mp2", "mpeg", "mpe", "mpv", "m2ts", "mts", "ts" }

main_is_media_file(extension) == extension \in main_MediaExtensions

RECURSIVE main_collect_media_files(_, _, _)
RECURSIVE main_CollectEntries(_, _, _)

\* main.rs:399-433: the loop over the entries; Ok(what it pushes) or the
\* error of a nested walk
main_CollectEntries(entries, source_root, exclude_path) ==
    IF entries = <<>> THEN Ok(<<>>)
    ELSE LET path == Head(entries)
             rest == main_CollectEntries(Tail(entries), source_root, exclude_path)
         IN IF IsDir(path)
            THEN IF IsExcluded(path, exclude_path)
                 THEN rest
                 ELSE LET below == main_collect_media_files(path, source_root, exclude_path)
                      IN IF ~below.ok THEN below
                         ELSE IF ~rest.ok THEN rest
                         ELSE Ok(below.val \o rest.val)
            ELSE IF /\ IsFile(path)
                    /\ Extension(path).some
                    /\ main_is_media_file(ToLowercase(Extension(path).val))
                 THEN IF rest.ok
                      THEN Ok(<<StripPrefix(path, source_root)>> \o rest.val)
                      ELSE rest
                 ELSE rest

\* main.rs:391-436: `fs::read_dir(current_dir)?`
main_collect_media_files(current_dir, source_root, exclude_path) ==
    LET entries == ReadDir(current_dir)
    IN IF entries.ok
       THEN main_CollectEntries(entries.val, source_root, exclude_path)
       ELSE Err("Io", "read_dir")

RECURSIVE main_collect_directories(_)
RECURSIVE main_CollectDirEntries(_)

\* main.rs:241-249
main_CollectDirEntries(entries) ==
    IF entries = <<>> THEN Ok(<<>>)
    ELSE LET path == Head(entries)
             rest == main_CollectDirEntries(Tail(entries))
         IN IF IsDir(path)
            THEN LET below == main_collect_directories(path)
                 IN IF ~below.ok THEN below
                    ELSE IF ~rest.ok THEN rest
                    ELSE Ok(<<path>> \o below.val \o rest.val)
            ELSE rest

\* main.rs:238-252
main_collect_directories(current_dir) ==
    LET entries == ReadDir(current_dir)
    IN IF entries.ok THEN main_CollectDirEntries(entries.val) ELSE Err("Io", "read_dir")

\* main.rs:382-388: `result?` on the results, then Ok(copied_count)
main_CopyOutcome ==
    IF \E i \in Tasks : task[i].pc = "err"
    THEN Err("Io", "the error of the first failed copy task")
    ELSE Ok(copied_count)

\* main.rs:328-349: the scan and the entry of copy_media_files
MainScan ==
    /\ pc = "scan"
    /\ LET found == main_collect_media_files(source, source, Some(dest))
       IN /\ snap' = DOMAIN files
          /\ IF ~found.ok
             THEN /\ media_files' = <<>>
                  /\ task' = <<>>
                  /\ copy_result' = found
                  /\ pc' = "done"
             ELSE /\ media_files' = found.val
                  /\ IF found.val = <<>>
                     THEN /\ copy_result' = Ok(0)
                          /\ task' = <<>>
                          /\ pc' = IF ShowsPrompt(copy_result') THEN "prompt" ELSE "done"
                     ELSE /\ copy_result' = copy_result
                          /\ task' = [i \in 1..Len(found.val) |->
                                        [pc |-> "mkdir", dest_file |-> DestFile(found.val[i])]]
                          /\ pc' = "copy"
    /\ UNCHANGED <<inputs, total_size, fsys, validation, copied_count, answer, delv, removed, pruned>>
    /\ com' = Cleanup(pc')

\* main.rs:380-388 and main.rs:32-57
MainCopyReturn ==
    /\ pc = "copy"
    /\ AllCopyTasksEnded
    /\ copy_result' = main_CopyOutcome
    /\ pc' = IF ShowsPrompt(copy_result') THEN "prompt" ELSE "done"
    /\ UNCHANGED <<inputs, total_size, fsys, validation, media_files, task, copied_count,
                   answer, delv, snap, removed, pruned>>
    /\ com' = Cleanup(pc')

\* main.rs:164-173
MainDeleteScan ==
    /\ pc = "delete"
    /\ LET found == main_collect_media_files(source, source, None)
       IN /\ snap' = DOMAIN files
          /\ IF ~found.ok
             THEN /\ del_files' = <<>>
                  /\ del_task' = <<>>
                  /\ delete_result' = found
                  /\ pc' = "done"
             ELSE /\ del_files' = found.val
                  /\ IF found.val = <<>>
                     THEN /\ delete_result' = Ok(0)
                          /\ del_task' = <<>>
                          /\ pc' = "done"
                     ELSE /\ delete_result' = delete_result
                          /\ del_task' = [i \in 1..Len(found.val) |-> "run"]
                          /\ pc' = "deleting"
    /\ UNCHANGED <<inputs, total_size, fsys, validation, copyv, answer, deleted_count,
                   directories, removed, pruned>>
    /\ com' = Cleanup(pc')

\* main.rs:200-206 and 211-215: `result?` on the results of the delete tasks,
\* then cleanup_empty_directories(source_path)? with its own walk
MainCollectDirectories ==
    /\ pc = "deleting"
    /\ AllDeleteTasksEnded
    /\ LET found == main_collect_directories(source)
       IN IF \E i \in DelTasks : del_task[i] = "err"
          THEN /\ delete_result' = Err("Io", "the error of the first failed delete task")
               /\ pc' = "done"
               /\ UNCHANGED directories
          ELSE IF ~found.ok
          THEN /\ delete_result' = found
               /\ pc' = "done"
               /\ UNCHANGED directories
          ELSE /\ directories' = SortByDepthDesc(found.val)
               /\ pc' = "prune"
               /\ UNCHANGED delete_result
    /\ UNCHANGED <<inputs, total_size, fsys, validation, copyv, answer, del_files, del_task,
                   deleted_count, snap, removed, pruned>>
    /\ com' = Cleanup(pc')

MainNext ==
    \/ SelectFolders
    \/ Validate
    \/ MainScan
    \/ \E i \in Tasks : CopyMkdir(i)
    \/ \E i \in Tasks : CopyUnique(i)
    \/ \E i \in Tasks : CopyFile(i)
    \/ MainCopyReturn
    \/ Prompt
    \/ MainDeleteScan
    \/ \E i \in DelTasks : DeleteFile(i)
    \/ MainCollectDirectories
    \/ PruneStep
    \/ DeleteReturn

MainSpec == Init /\ [][MainNext]_vars

(***************************************************************************)
(* C20: in the run of main.rs's own copy_media_files and                   *)
(* delete_original_files, a failed copy or removal of one file is not      *)
(* fatal: each phase that started its tasks returns Ok with the number of  *)
(* its successes, a copy phase with a success is followed by the deletion  *)
(* prompt, and a delete phase whose tasks have ended has pruned (the       *)
(* source always holds the empty directory A/e/f, which a pruning that ran *)
(* has removed unless remove_dir is refused).                              *)
(***************************************************************************)
C20_Copied == {i \in Tasks : task[i].pc = "ok"}

C20_PerFileFailureNeverFatal ==
    /\ Returned(copy_result) /\ media_files # <<>> =>
          /\ copy_result = Ok(Cardinality(C20_Copied))
          /\ C20_Copied # {} => pc = "prompt" \/ Returned(answer)
    /\ Returned(delete_result) /\ del_files # <<>> =>
          /\ delete_result = Ok(Cardinality(removed))
          /\ env.unremovable = {} => pruned # <<>>

(***************************************************************************)
(* C21: in the run of main.rs's own functions, pruning never fails: once   *)
(* every delete task has ended with success, delete_original_files returns *)
(* Ok, and a directory that could not be listed or removed was skipped     *)
(* while the others were still attempted, so that a directory strictly     *)
(* below the source root that is left at the end is non-empty, or its      *)
(* removal was refused, or it lies below a directory that was not listed.  *)
(***************************************************************************)
\* the walk reached d: every directory from the source root down to the
\* parent of d was listed
C21_Collected(d) ==
    \A n \in Len(Canon(source))..(Len(d) - 1) :
        SubSeq(d, 1, n) \notin env.unlistable \cup env.unlistable_late

C21_StrictlyBelowRoot(d) ==
    StartsWith(d, Canon(source)) /\ d # Canon(source)

C21_PruningNeverFails ==
    (/\ pc = "done"
     /\ del_files # <<>>
     /\ \A i \in DelTasks : del_task[i] = "ok")
        => /\ Returned(delete_result) /\ delete_result.ok
           /\ \A d \in dirs :
                C21_StrictlyBelowRoot(d) =>
                    \/ ChildNames(d) # {}
                    \/ d \in env.unremovable
                    \/ ~C21_Collected(d)

(***************************************************************************)
(* C22: deepest first.  In the list that the pruning loop works through,   *)
(* no directory comes after one of its ancestors: for every two collected  *)
(* directories of which one lies below the other, the removal of the lower *)
(* one is attempted first.                                                 *)
(***************************************************************************)
C22_Below(d, anc) == StartsWith(d, anc) /\ d # anc

C22_DescendantsFirst ==
    pc = "prune" =>
        \A i, j \in DOMAIN directories :
            C22_Below(directories[i], directories[j]) => i < j

C22_Witness ==
    /\ pc = "prune"
    /\ pruned = <<>>
    /\ Len(directories) >= 5
    /\ \E i, j \in DOMAIN directories :
          /\ i < j
          /\ directories[i] = source \o <<DirName("e"), DirName("f")>>
          /\ directories[j] = source \o <<DirName("e")>>
    /\ source = L

(***************************************************************************)
(* C23: pruning removes only directories that are empty at the moment of   *)
(* their removal and lie strictly below the source root; it removes no     *)
(* file and never the root; so a directory that still holds a file (one    *)
(* that is no media file, or one whose removal failed) stays, and so do    *)
(* all its ancestors.                                                      *)
(***************************************************************************)
C23_RemovedNow == dirs \ dirs'

C23_Removal ==
    /\ \A d \in C23_RemovedNow :
          /\ pc = "prune"
          /\ ChildNames(d) = {}
          /\ StartsWith(d, Canon(source)) /\ d # Canon(source)
    /\ pc = "prune" => files' = files

C23_FilesKeepAncestors ==
    /\ \A q \in DOMAIN files : \A n \in 0..(Len(q) - 1) : SubSeq(q, 1, n) \in dirs
    /\ Returned(validation) /\ validation.ok => Canon(source) \in dirs

C23_OnlyEmptyBelowRoot ==
    []C23_FilesKeepAncestors /\ [][C23_Removal]_vars

C23_Witness ==
    /\ pc = "done"
    /\ Len(pruned) >= 2
    /\ A \o Sub \o <<b_JPG>> \in DOMAIN files
    /\ A \o Sub \o <<b_JPG>> \in env.undeletable
    /\ removed # {}
    /\ A \o Sub \in dirs
    /\ A \o <<DirName("k")>> \in dirs
    /\ A \o <<DirName("e")>> \notin dirs

(***************************************************************************)
(* C24: create_unique_directory_structure(dest_root, target_dir) creates   *)
(* only directories on the path from dest_root to target_dir.  When the    *)
(* target is missing it creates exactly the missing directories of that    *)
(* path; a directory of the path that exists is used as it is; no          *)
(* directory is removed, no file changes, and nothing is created beside    *)
(* the path.  When it returns Ok the target exists.                        *)
(***************************************************************************)
C24_Targets ==
    {Parent(DestFile(r)) : r \in MediaCandidates}
        \cup {DestFile(Sub \o <<DirName("deep")>>)}

\* the canonical paths of the directories from below dest_root down to t
C24_Chain(t) == {Canon(SubSeq(t, 1, n)) : n \in (Len(dest) + 1)..Len(t)}

C24_Frame(before, after, t) ==
    /\ before \subseteq after.dirs
    /\ after.dirs \ before \subseteq C24_Chain(t)
    /\ after.ok =>
          /\ Canon(t) \in after.dirs
          /\ after.dirs = before \cup C24_Chain(t)
    /\ env.nomkdir = {} => after.ok

C24_Call ==
    pc = "copy" =>
        \A t \in C24_Targets : C24_Frame(dirs, CreateStructureIn(dirs, dest, t), t)

\* the step of a copy task that runs it
C24_Step ==
    \A i \in Tasks :
        (i \in DOMAIN task' /\ task[i].pc = "mkdir" /\ task'[i].pc # "mkdir")
        => /\ files' = files
           /\ C24_Frame(dirs, [ok |-> task'[i].pc = "unique", dirs |-> dirs'],
                        Parent(DestFile(media_files[i])))

WalkMedia ==
    { {}, {<<a_jpg>>}, {<<a_jpg>>, <<a_1_jpg>>}, {<<a_jpg>>, Sub \o <<b_JPG>>},
      {Sub \o <<a_jpg>>, Sub \o <<b_JPG>>},
      {<<a_jpg>>, <<a_1_jpg>>, Sub \o <<b_JPG>>} }

WalkUnlistable == { {}, {A \o Sub}, {A \o <<DirName("e")>>}, {Ac} }

WalkInit ==
    \E media \in WalkMedia, pre \in {{}, {<<a_jpg>>}}, d \in {B, Ac},
       lp \in {{}, {Loop}}, unl \in WalkUnlistable :
        \E nometa \in SUBSET ({A \o r : r \in media} \cup {Ac \o r : r \in pre}) :
            \E ex \in {None, Some(d)} :
                LET sc == Scenario(<<A, d>>, media, pre, {}, NoFaults)
                IN /\ d = B => pre = {}
                   /\ loops = lp
                   /\ source = A
                   /\ dest = d
                   /\ dirs = InitialDirs(sc)
                   /\ files = InitialFiles(sc)
                   /\ full = {}
                   /\ almost = {}
                   /\ selection = "both"
                   /\ env = [NoFaults EXCEPT !.unlistable = unl, !.nometadata = nometa]
                   /\ walk_exclude = ex
                   /\ total_size = 0
                   /\ com = "uninitialized"
                   /\ files0 = files
                   /\ dirs0 = dirs
                   /\ pc = "walk"
                   /\ validation = Ok(<<>>)
                   /\ media_files = <<>>
                   /\ task = <<>>
                   /\ copied_count = 0
                   /\ copy_result = Pending
                   /\ answer = Pending
                   /\ del_files = <<>>
                   /\ del_task = <<>>
                   /\ deleted_count = 0
                   /\ directories = <<>>
                   /\ delete_result = Pending
                   /\ snap = {}
                   /\ removed = {}
                   /\ pruned = <<>>

\* file_ops.rs:126-142: the sizing walk of the source
SizingWalk ==
    /\ pc \in {"walk", "plain"}
    /\ LET found == collect_media_files_and_calculate_size(source, walk_exclude)
       IN /\ media_files' = found.val[1]
          /\ total_size' = found.val[2]
    /\ pc' = IF pc = "walk" THEN "sized" ELSE "walked"
    /\ UNCHANGED <<inputs, com, fsys, validation, task, copied_count, copy_result,
                   answer, delv, snap, removed, pruned>>

\* media.rs:10-82: the plain walk of the source
PlainWalk ==
    /\ pc \in {"walk", "sized"}
    /\ del_files' = collect_media_files(source, source, walk_exclude)
    /\ pc' = IF pc = "walk" THEN "plain" ELSE "walked"
    /\ UNCHANGED <<inputs, total_size, fsys, validation, copyv, answer, del_task,
                   deleted_count, directories, delete_result, snap, removed, pruned>>
    /\ UNCHANGED com

WalkNext ==
    \/ SizingWalk
    \/ PlainWalk

WalkSpec == WalkInit /\ [][WalkNext]_vars

Sized == pc \in {"sized", "walked"}
Plain == pc \in {"plain", "walked"}

(***************************************************************************)
(* C25: a directory that cannot be read is skipped and the walk goes on.   *)
(* Both walks return Ok, and their lists hold every media file of the      *)
(* source tree that lies outside the excluded subtree and can be reached   *)
(* from the root through directories that could be listed.                 *)
(***************************************************************************)
C25_IsMedia(q) ==
    Last(q).ext # NoExt /\ ToLowercase(Last(q).ext) \in MediaExtensions

C25_Excluded(q) ==
    walk_exclude.some /\ StartsWith(q, Canon(walk_exclude.val))

\* every directory from the root down to the one that holds q could be listed
C25_Reached(q) ==
    \A n \in Len(Canon(source))..(Len(q) - 1) : SubSeq(q, 1, n) \notin env.unlistable

C25_Holds(list) ==
    \A q \in DOMAIN files :
        (/\ StartsWith(q, Canon(source))
         /\ C25_IsMedia(q)
         /\ ~C25_Excluded(q)
         /\ C25_Reached(q))
        => StripPrefix(q, Canon(source)) \in Range(list)

C26_File(rel) == Canon(Join(source, rel))

C26_Counted(rel) == C26_File(rel) \notin env.nometadata

RECURSIVE C26_Sum(_)
C26_Sum(list) ==
    IF list = <<>> THEN 0
    ELSE (IF C26_Counted(Head(list)) THEN FileLength(files[C26_File(Head(list))]) ELSE 0)
            + C26_Sum(Tail(list))

C26_TotalIsSumOfReadableLengths ==
    Sized =>
        /\ total_size = C26_Sum(media_files)
        /\ \A q \in env.nometadata :
              (/\ StartsWith(q, Canon(source))
               /\ ~(walk_exclude.some /\ StartsWith(q, Canon(walk_exclude.val)))
               /\ \A n \in Len(Canon(source))..(Len(q) - 1) :
                     SubSeq(q, 1, n) \notin env.unlistable)
              => StripPrefix(q, Canon(source)) \in Range(media_files)

C26_Witness ==
    /\ pc = "sized"
    /\ loops = {}
    /\ env.nometadata = {A \o <<a_1_jpg>>}
    /\ media_files = << <<a_jpg>>, <<a_1_jpg>>, Sub \o <<b_JPG>> >>
    /\ total_size = 5

(***************************************************************************)
(* C29: the sizing walk and the plain walk of the same tree with the same  *)
(* exclude_path produce the same list of relative paths in the same order, *)
(* whether or not a metadata read fails.                                   *)
(***************************************************************************)
C29_SameList ==
    pc = "walked" => media_files = del_files

C29_Witness ==
    /\ pc = "walked"
    /\ dest = Ac
    /\ walk_exclude = Some(Ac)
    /\ Ac \o <<a_jpg>> \in DOMAIN files
    /\ env.nometadata = {A \o <<a_jpg>>, A \o Sub \o <<b_JPG>>}
    /\ env.unlistable = {}
    /\ loops = {}
    /\ del_files = << <<a_jpg>>, <<a_1_jpg>>, Sub \o <<b_JPG>> >>
    /\ media_files = del_files

(***************************************************************************)
(* C27: when a path cannot be canonicalized, validate_folder_paths returns *)
(* a NotFound error that names the side that failed, and no relationship   *)
(* error; the source is tried first, so when neither path can be           *)
(* canonicalized the error names the source.                               *)
(***************************************************************************)
C27_SourceFails == ~Existed0(source)
C27_DestinationFails == ~Existed0(dest)

C27_NotFoundNamesTheSide ==
    Returned(validation) =>
        /\ C27_SourceFails =>
              validation = Err("NotFound", "Unable to access source folder")
        /\ ~C27_SourceFails /\ C27_DestinationFails =>
              validation = Err("NotFound", "Unable to access destination folder")
        /\ ~validation.ok /\ validation.kind = "NotFound" =>
              C27_SourceFails \/ C27_DestinationFails

C27_Witness ==
    /\ Returned(validation)
    /\ source = X /\ dest = X
    /\ validation = Err("NotFound", "Unable to access source folder")
    /\ pc = "done"

(***************************************************************************)
(* C28: the walk ends, it reads the entries of each directory at most      *)
(* once, and it lists no relative path more than once; this with a         *)
(* destination nested in the source and with a directory link inside the   *)
(* source that names an ancestor.                                          *)
(***************************************************************************)
C28_Visits == WalkVisits(source, walk_exclude)

C28_EachDirectoryOnce ==
    Plain =>
        /\ \A i, j \in DOMAIN C28_Visits :
              Canon(C28_Visits[i]) = Canon(C28_Visits[j]) => i = j
        /\ \A i, j \in DOMAIN del_files : del_files[i] = del_files[j] => i = j

(***************************************************************************)
(* C30: the result of a copy phase does not depend on the schedule of its  *)
(* tasks.  On a platform that refuses nothing, whatever the interleaving,  *)
(* the phase ends with the directories, the files with their contents and  *)
(* the returned count that the schedule running the tasks one after the    *)
(* other in the order of the file list ends with.                          *)
(***************************************************************************)
\* get_unique_file_path on the tree (ds, fs)
C30_Unique(ds, fs, p) ==
    IF ~ExistsIn(ds, fs, p) THEN p
    ELSE NewPath(p, CHOOSE k \in 1..MaxAttempts :
                        /\ ~ExistsIn(ds, fs, NewPath(p, k))
                        /\ \A j \in 1..(k - 1) : ExistsIn(ds, fs, NewPath(p, j)))

\* the tasks i, i+1, ... run one after the other on the tree (ds, fs)
RECURSIVE C30_InOrder(_, _, _, _)
C30_InOrder(i, ds, fs, count) ==
    IF i > Len(media_files) THEN [dirs |-> ds, files |-> fs, count |-> count]
    ELSE LET target == DestFile(media_files[i])
             made == CreateStructureIn(ds, dest, Parent(target))
             to == Canon(C30_Unique(made.dirs, DOMAIN fs, target))
             from == Canon(source_file(i))
         IN C30_InOrder(i + 1, made.dirs,
                        [q \in DOMAIN fs \cup {to} |-> IF q = to THEN fs[from] ELSE fs[q]],
                        count + 1)

C30_Healthy == env = NoFaults /\ full = {} /\ almost = {}

C30_ScheduleIndependent ==
    AfterCopy /\ media_files # <<>> /\ C30_Healthy =>
        LET end == C30_InOrder(1, dirs0, files0, 0)
        IN /\ dirs = end.dirs
           /\ files = end.files
           /\ copy_result = Ok(end.count)

(***************************************************************************)
(* C31: the copy phase changes nothing outside the destination subtree.    *)
(* Until the delete phase starts, every file that was there at the start   *)
(* is still there with its content and every directory that was there is   *)
(* still there, and every file or directory that was added lies under the  *)
(* canonical destination root; each step of a copy task obeys the same     *)
(* frame.                                                                  *)
(***************************************************************************)
C31_UnderDestination(q) == StartsWith(q, Canon(dest))

C31_Frame ==
    DeleteNotStarted =>
        /\ \A q \in DOMAIN files0 : q \in DOMAIN files /\ files[q] = files0[q]
        /\ dirs0 \subseteq dirs
        /\ \A q \in (DOMAIN files \ DOMAIN files0) \cup (dirs \ dirs0) :
              C31_UnderDestination(q)

C31_Step ==
    pc = "copy" =>
        /\ \A q \in DOMAIN files : q \in DOMAIN files' /\ (files'[q] # files[q] =>
              C31_UnderDestination(q) /\ q \notin DOMAIN files0)
        /\ dirs \subseteq dirs'
        /\ \A q \in (DOMAIN files' \ DOMAIN files) \cup (dirs' \ dirs) :
              C31_UnderDestination(q)

C31_CopyStaysInDestination ==
    []C31_Frame /\ [][C31_Step]_vars

C31_Witness ==
    /\ AfterCopy
    /\ source = A /\ dest = Ac
    /\ copy_result = Ok(3)
    /\ Ac \o Sub \in dirs \ dirs0
    /\ Ac \o <<a_jpg>> \in DOMAIN files0
    /\ Ac \o <<a_1_jpg>> \in DOMAIN files \ DOMAIN files0
    /\ Cardinality(DOMAIN files \ DOMAIN files0) = 3

(***************************************************************************)
(* C32: the delete phase removes only files under the source root whose    *)
(* extension is in the media set.  Every step of the phase leaves every    *)
(* other file in place with its content, adds nothing, and removes no      *)
(* directory outside the source root; after delete_original_files every    *)
(* non-media file of the source tree is there with the content it had, and *)
(* so is everything outside the source root that was there before.         *)
(***************************************************************************)
C32_UnderSource(q) == StartsWith(q, Canon(source))

C32_IsMedia(q) ==
    Last(q).ext # NoExt /\ ToLowercase(Last(q).ext) \in MediaExtensions

C32_InDeletePhase == pc \in {"delete", "deleting", "prune"}

C32_Step ==
    C32_InDeletePhase =>
        /\ DOMAIN files' \subseteq DOMAIN files
        /\ \A q \in DOMAIN files' : files'[q] = files[q]
        /\ \A q \in DOMAIN files \ DOMAIN files' : C32_UnderSource(q) /\ C32_IsMedia(q)
        /\ dirs' \subseteq dirs
        /\ \A d \in dirs \ dirs' : C32_UnderSource(d)

C32_After ==
    /\ \A q \in removed : C32_UnderSource(q) /\ C32_IsMedia(q)
    /\ Returned(delete_result) =>
          /\ \A q \in DOMAIN files0 :
                ~C32_IsMedia(q) \/ ~C32_UnderSource(q)
                    => q \in DOMAIN files /\ files[q] = files0[q]
          /\ \A d \in dirs0 : ~C32_UnderSource(d) => d \in dirs
          /\ \A i \in Tasks :
                (task[i].pc = "ok" /\ ~C32_UnderSource(Canon(task[i].dest_file)))
                    => Canon(task[i].dest_file) \in DOMAIN files

C32_DeleteRemovesOnlyMedia ==
    []C32_After /\ [][C32_Step]_vars

C32_Witness ==
    /\ Returned(delete_result)
    /\ source = L /\ dest = B
    /\ Cardinality(removed) = 3
    /\ pruned # <<>>
    /\ DOMAIN files \cap {q \in DOMAIN files0 : C32_UnderSource(q)}
          = {A \o <<n_txt>>, A \o <<DirName("k"), m_noext>>}
    /\ Cardinality({q \in DOMAIN files : StartsWith(q, B)}) = 3

(***************************************************************************)
(* C33: the COM library that main initializes at its start is released on  *)
(* every exit path: whenever main has returned, CoUninitialize has been    *)
(* called, also after a validation error and after an error of a folder    *)
(* picker.                                                                 *)
(***************************************************************************)
C33_ReleasedOnEveryExit ==
    pc = "done" => com = "released"
====
